---- MODULE Spec2Model ----
(***************************************************************************)
(* Fairway Content Library (src/src/App.js): the catalog loader (the       *)
(* one-shot fetch of the mount effect, with its cancellation flag) and the *)
(* query engine (filter -> facet tallies -> sort -> paginate) driven by    *)
(* the query state the controls mutate.                                    *)
(*                                                                         *)
(* JavaScript values are modelled as follows.                              *)
(*   string      a TLA+ string (Len, \o and SubSeq act on its characters)  *)
(*   array       a sequence                                                *)
(*   object      a record; an absent property is a field absent from the   *)
(*               record's DOMAIN, and reading it yields `undefined`        *)
(*   number      an integer; NaN is an integer no time value, year, read   *)
(*               time or score of the model takes                          *)
(*   time value  whole days since 1970-01-01 (every catalog date is a      *)
(*               date-only ISO string, so every time value is a multiple   *)
(*               of 86 400 000 ms); getFullYear is taken in UTC            *)
(***************************************************************************)
EXTENDS Integers, Sequences, FiniteSets, TLC

VARIABLES
    items, loading, error,          \* useState: catalog, spinner, warning
    q, ctype, industries, personas, \* useState: query state
    topics, tags, stage, year,
    sort, page, pageSize,
    cancelled,                      \* the mount effect's closure flag
    pc, r, json, e,                 \* run(): position and locals
    crashed,                        \* a render threw and React removed the tree
    filtered, sorted,               \* useMemo: the memoized filter and sort results
    now,                            \* Date.now()
    prevPage                        \* history: `page` before the last step

vars == <<items, loading, error, q, ctype, industries, personas, topics, tags,
          stage, year, sort, page, pageSize, cancelled, pc, r, json, e,
          crashed, filtered, sorted, now, prevPage>>

loadVars   == <<items, loading, error, pc, r, json, e, crashed>>
facetVars  == <<ctype, industries, personas, topics, tags, stage, year>>

-----------------------------------------------------------------------------
(* JavaScript primitives *)

undefined == "<undefined>"
NaN       == -(2^30)

UPPER  == "ABCDEFGHIJKLMNOPQRSTUVWXYZ"
LOWER  == "abcdefghijklmnopqrstuvwxyz"
DIGITS == "0123456789"

Char(s, i) == SubSeq(s, i, i)

Range(seq) == { seq[i] : i \in 1..Len(seq) }

\* Array.prototype.includes
Includes(arr, v) == \E i \in 1..Len(arr) : arr[i] = v

\* p[name], `undefined` when the property is absent
Get(p, name) == IF name \in DOMAIN p THEN p[name] ELSE undefined

\* (p[name] || []) for an array-valued property
ArrOr(p, name) == IF name \in DOMAIN p THEN p[name] ELSE <<>>

\* (p[name] || "") for a string-valued property
StrOr(p, name) == IF name \in DOMAIN p THEN p[name] ELSE ""

\* (p[name] || 0) for a number-valued property
NumOr(p, name) == IF name \in DOMAIN p THEN p[name] ELSE 0

UpperChars == { Char(UPPER, i) : i \in 1..Len(UPPER) }
DigitChars == { Char(DIGITS, i) : i \in 1..Len(DIGITS) }

\* String.prototype.toLowerCase, one character
LowerChar(c) ==
    IF c \in UpperChars
    THEN Char(LOWER, CHOOSE i \in 1..Len(UPPER) : Char(UPPER, i) = c)
    ELSE c

\* String.prototype.toLowerCase
RECURSIVE toLowerCase(_)
toLowerCase(s) ==
    IF Len(s) = 0 THEN s
    ELSE IF Len(s) = 1 THEN LowerChar(s)
    ELSE LET h == Len(s) \div 2
         IN  toLowerCase(SubSeq(s, 1, h)) \o toLowerCase(SubSeq(s, h + 1, Len(s)))

\* String.prototype.includes
StrIncludes(haystack, needle) ==
    \E i \in 1..(Len(haystack) - Len(needle) + 1) :
        SubSeq(haystack, i, i + Len(needle) - 1) = needle

\* the characters /\s/ and trim() treat as white space
IsSpace(c) == c \in {" ", "\n", "\t"}

\* String.prototype.trim
trim(s) ==
    IF \A i \in 1..Len(s) : IsSpace(Char(s, i)) THEN ""
    ELSE LET a == CHOOSE i \in 1..Len(s) :
                    /\ ~IsSpace(Char(s, i))
                    /\ \A j \in 1..(i - 1) : IsSpace(Char(s, j))
             b == CHOOSE i \in 1..Len(s) :
                    /\ ~IsSpace(Char(s, i))
                    /\ \A j \in (i + 1)..Len(s) : IsSpace(Char(s, j))
         IN  SubSeq(s, a, b)

\* Array.prototype.join
RECURSIVE join(_, _)
join(arr, sep) ==
    IF Len(arr) = 0 THEN ""
    ELSE IF Len(arr) = 1 THEN arr[1]
    ELSE arr[1] \o sep \o join(Tail(arr), sep)

RECURSIVE SumSeq(_)
SumSeq(s) == IF s = <<>> THEN 0 ELSE Head(s) + SumSeq(Tail(s))

RECURSIVE FlatMap(_, _)
FlatMap(seq, name) ==
    IF seq = <<>> THEN <<>> ELSE ArrOr(Head(seq), name) \o FlatMap(Tail(seq), name)

Max(a, b) == IF a >= b THEN a ELSE b
Min(a, b) == IF a <= b THEN a ELSE b

\* Math.ceil(a / b) for a >= 0, b > 0
CeilDiv(a, b) == (a + b - 1) \div b

-----------------------------------------------------------------------------
(* Date: only the date-only ISO form YYYY-MM-DD parses; every other string, *)
(* and `undefined`, gives an Invalid Date, whose time value is NaN.         *)

IsDigit(c) == c \in DigitChars
DigitVal(c) == (CHOOSE i \in 1..Len(DIGITS) : Char(DIGITS, i) = c) - 1

RECURSIVE ParseInt(_)
ParseInt(s) ==
    IF Len(s) = 0 THEN 0
    ELSE 10 * ParseInt(SubSeq(s, 1, Len(s) - 1)) + DigitVal(Char(s, Len(s)))

IsLeap(y) == (y % 4 = 0 /\ y % 100 # 0) \/ y % 400 = 0

DaysInMonth(y, m) ==
    IF m = 2 THEN (IF IsLeap(y) THEN 29 ELSE 28)
    ELSE IF m \in {4, 6, 9, 11} THEN 30 ELSE 31

IsIsoDate(iso) ==
    /\ iso # undefined
    /\ Len(iso) = 10
    /\ Char(iso, 5) = "-" /\ Char(iso, 8) = "-"
    /\ \A i \in {1, 2, 3, 4, 6, 7, 9, 10} : IsDigit(Char(iso, i))
    /\ LET y == ParseInt(SubSeq(iso, 1, 4))
           m == ParseInt(SubSeq(iso, 6, 7))
           d == ParseInt(SubSeq(iso, 9, 10))
       IN  m \in 1..12 /\ d \in 1..DaysInMonth(y, m)

\* days from 1970-01-01 to the civil date y-m-d
DaysFromCivil(y, m, d) ==
    LET yy  == IF m <= 2 THEN y - 1 ELSE y
        era == yy \div 400
        yoe == yy - era * 400
        mp  == IF m > 2 THEN m - 3 ELSE m + 9
        doy == (153 * mp + 2) \div 5 + d - 1
        doe == yoe * 365 + yoe \div 4 - yoe \div 100 + doy
    IN  era * 146097 + doe - 719468

\* new Date(iso).getTime()
getTime(iso) ==
    IF IsIsoDate(iso)
    THEN DaysFromCivil(ParseInt(SubSeq(iso, 1, 4)), ParseInt(SubSeq(iso, 6, 7)),
                       ParseInt(SubSeq(iso, 9, 10)))
    ELSE NaN

\* new Date(iso).getFullYear()
getFullYear(iso) == IF IsIsoDate(iso) THEN ParseInt(SubSeq(iso, 1, 4)) ELSE NaN

\* String(n)
String(n) == IF n = NaN THEN "NaN" ELSE ToString(n)

\* a - b on numbers
Minus(a, b) == IF a = NaN \/ b = NaN THEN NaN ELSE a - b

\* new Date(x.release_date) - new Date(y.release_date)
DateDiff(x, y) == Minus(getTime(Get(x, "release_date")), getTime(Get(y, "release_date")))

-----------------------------------------------------------------------------
(* 1) Configuration *)

DATA_URL == "https://pub-9d76e1d511764457a42a4f9797dbe836.r2.dev/index.json?v=20251119"

\* Fallback demo data if fetch fails
SAMPLE ==
    [items |-> <<
        [id |-> 1,
         slug |-> "zero-trust-2025",
         title |-> "Zero Trust for 2025: Practical Roadmap",
         summary |-> "A pragmatic guide to sequencing identity, device posture, and micro-segmentation for mid-market enterprises.",
         industries |-> <<"Tech", "Finance">>,
         personas |-> <<"CISO", "CIO">>,
         topics |-> <<"Zero Trust", "Identity", "Micro-segmentation">>,
         tags |-> <<"Security", "Architecture">>,
         funnel_stage |-> "Consideration",
         release_date |-> "2025-10-15",
         version |-> 2,
         read_time_min |-> 11,
         words |-> 2450,
         content_type |-> "whitepaper",
         file_url |-> "https://example.com/zero-trust.pdf",
         cover_url |-> "https://picsum.photos/seed/zt/640/360"],
        [id |-> 2,
         slug |-> "ai-governance-intro",
         title |-> "AI Governance Explained (Short Video)",
         summary |-> "A 2-minute explainer on policy, model evals, and provenance.",
         industries |-> <<"Tech">>,
         personas |-> <<"CTO", "Head of Data">>,
         topics |-> <<"LLM", "Safety", "Provenance">>,
         tags |-> <<"AI", "Video">>,
         funnel_stage |-> "Awareness",
         release_date |-> "2025-08-01",
         version |-> 1,
         duration_sec |-> 125,
         content_type |-> "video",
         file_url |-> "https://www.w3schools.com/html/mov_bbb.mp4",
         cover_url |-> "https://picsum.photos/seed/ai/640/360"],
        [id |-> 3,
         slug |-> "developer-intent-blueprint",
         title |-> "Developer Intent Blueprint",
         summary |-> "How to use public, verifiable signals to prioritize accounts without renting a DMP.",
         industries |-> <<"SaaS", "Tech">>,
         personas |-> <<"VP Marketing", "Growth">>,
         topics |-> <<"Developer Intent", "ABM", "Data">>,
         tags |-> <<"Demand Gen", "Signals">>,
         funnel_stage |-> "Decision",
         release_date |-> "2025-09-20",
         version |-> 3,
         read_time_min |-> 13,
         words |-> 3100,
         content_type |-> "whitepaper",
         file_url |-> "https://example.com/dev-intent.pdf",
         cover_url |-> "https://picsum.photos/seed/dev/640/360"]
    >>]

-----------------------------------------------------------------------------
(* 2) Small utilities *)

\* clamp as it would be without the upper bound
clamp_NoUpper(n, min, max) == Max(min, n)

clamp(n, min, max) == Max(min, Min(max, n))

includesI(haystack, needle) ==
    StrIncludes(toLowerCase(haystack), toLowerCase(needle))

fullTextMatch(p, qq) ==
    IF qq = "" THEN TRUE
    ELSE LET fields == join(<<StrOr(p, "title"), StrOr(p, "summary")>>
                            \o ArrOr(p, "topics") \o ArrOr(p, "tags")
                            \o ArrOr(p, "personas") \o ArrOr(p, "industries"),
                            " \n ")
         IN  includesI(fields, qq)

\* Neither new Date(iso) nor getFullYear() throws on a string or on
\* `undefined`, so the catch branch (return "") is never taken.
computeYear(iso) == String(getFullYear(iso))

\* the property key an array element becomes: String(k)
Key(k) == IF k = undefined THEN "undefined" ELSE k

\* tally as it would be if each key were counted once
tally_Presence(arr) ==
    [k \in { Key(arr[i]) : i \in 1..Len(arr) } |-> 1]

tally(arr) ==
    [k \in { Key(arr[i]) : i \in 1..Len(arr) } |->
        Cardinality({ i \in 1..Len(arr) : Key(arr[i]) = k })]

-----------------------------------------------------------------------------
(* 4) Main App: derived values.  The memoized computations are operators  *)
(* of their dependencies; the state supplies the arguments.                *)

\* the facet selections, by the key ActiveChips gives each
selections ==
    [type |-> ctype, industries |-> industries, personas |-> personas,
     topics |-> topics, tags |-> tags, stage |-> stage, year |-> year]

\* the multi-valued test as it would be with some() in place of every()
EveryIn_Some(arr, p, name) ==
    \E i \in 1..Len(arr) : Includes(ArrOr(p, name), arr[i])

\* arr.every((v) => (p[name] || []).includes(v))
EveryIn(arr, p, name) ==
    \A i \in 1..Len(arr) : Includes(ArrOr(p, name), arr[i])

\* the single-valued test as it would be if the selection were not applied
Among_Unfiltered(arr, v) == TRUE

\* the single-valued test as it would be if every selected value had to match
Among_All(arr, v) == \A i \in 1..Len(arr) : arr[i] = v

\* arr.includes(v) for the value v of a single-valued property
Among(arr, v) == Includes(arr, v)

\* the callback of items.filter
passes(p, qTrim, sel) ==
    /\ fullTextMatch(p, qTrim)
    /\ ~(Len(sel.type) # 0 /\ ~Among(sel.type, Get(p, "content_type")))
    /\ ~(Len(sel.industries) # 0 /\ ~EveryIn(sel.industries, p, "industries"))
    /\ ~(Len(sel.personas) # 0 /\ ~EveryIn(sel.personas, p, "personas"))
    /\ ~(Len(sel.topics) # 0 /\ ~EveryIn(sel.topics, p, "topics"))
    /\ ~(Len(sel.tags) # 0 /\ ~EveryIn(sel.tags, p, "tags"))
    /\ ~(Len(sel.stage) # 0 /\ ~Among(sel.stage, Get(p, "funnel_stage")))
    /\ ~(Len(sel.year) # 0 /\
         ~Among(sel.year, computeYear(Get(p, "release_date"))))

\* the `filtered` memo
computeFiltered(its, qq, sel) ==
    LET qTrim == trim(qq)
    IN  SelectSeq(its, LAMBDA p : passes(p, qTrim, sel))

\* String.prototype.split(/\s+/)
RECURSIVE split(_)
split(s) ==
    IF \A i \in 1..Len(s) : ~IsSpace(Char(s, i)) THEN <<s>>
    ELSE LET a == CHOOSE i \in 1..Len(s) :
                    /\ IsSpace(Char(s, i))
                    /\ \A j \in 1..(i - 1) : ~IsSpace(Char(s, j))
             rest == { i \in (a + 1)..Len(s) : ~IsSpace(Char(s, i)) }
             b == IF rest = {} THEN Len(s) + 1
                  ELSE CHOOSE i \in rest : \A j \in rest : i <= j
         IN  <<SubSeq(s, 1, a - 1)>> \o split(SubSeq(s, b, Len(s)))

\* the hits of one search word on p: 5 title, 2 summary, 1 anywhere
hits(title, summary, lower, w) ==
    IF w = "" THEN 0
    ELSE (IF StrIncludes(title, w) THEN 5 ELSE 0)
       + (IF StrIncludes(summary, w) THEN 2 ELSE 0)
       + (IF StrIncludes(lower, w) THEN 1 ELSE 0)

\* score(p), times 365: yearsOld is a number of days over 365, so
\* 365 * (s + max(0, 2 - yearsOld)) = 365 * s + max(0, 730 - days) exactly.
\* An Invalid Date makes yearsOld, and with it the score, NaN.
score(p, terms, nw) ==
    LET text  == StrOr(p, "title") \o "\n" \o StrOr(p, "summary") \o "\n"
                 \o join(ArrOr(p, "topics"), " ") \o "\n"
                 \o join(ArrOr(p, "tags"), " ") \o "\n"
                 \o join(ArrOr(p, "personas"), " ") \o "\n"
                 \o join(ArrOr(p, "industries"), " ")
        lower   == toLowerCase(text)
        title   == toLowerCase(StrOr(p, "title"))
        summary == toLowerCase(StrOr(p, "summary"))
        s       == SumSeq([i \in 1..Len(terms) |->
                              hits(title, summary, lower, terms[i])])
        daysOld == Minus(nw, getTime(Get(p, "release_date")))
    IN  IF daysOld = NaN THEN NaN ELSE 365 * s + Max(0, 2 * 365 - daysOld)

\* whether the default branch of the switch sorts by score
ByScore(mode, qq) ==
    mode \notin {"newest", "oldest", "shortest", "longest"} /\ trim(qq) # ""

\* what the comparators read of an item, evaluated once per item
sortKey(p, mode, qq, nw) ==
    [time  |-> getTime(Get(p, "release_date")),
     read  |-> NumOr(p, "read_time_min"),
     score |-> IF ByScore(mode, qq)
               THEN score(p, split(toLowerCase(trim(qq))), nw) ELSE 0]

\* x || y on numbers
OrElse(x, y) == IF x = 0 \/ x = NaN THEN y ELSE x

\* the comparator of arr.sort for the sort mode, on the keys of a and b
compare(mode, byScore, a, b) ==
    CASE mode = "newest"   -> Minus(b.time, a.time)
      [] mode = "oldest"   -> Minus(a.time, b.time)
      [] mode = "shortest" -> OrElse(a.read - b.read, Minus(b.time, a.time))
      [] mode = "longest"  -> OrElse(b.read - a.read, Minus(b.time, a.time))
      [] OTHER             -> IF byScore
                              THEN Minus(b.score, a.score)
                              ELSE Minus(b.time, a.time)

\* SortCompare of Array.prototype.sort: a NaN result counts as +0
SortCompare(mode, byScore, a, b) ==
    LET v == compare(mode, byScore, a, b) IN IF v = NaN THEN 0 ELSE v

\* ECMAScript's "consistent comparator" on the set of keys K
Consistent(K, mode, byScore) ==
    LET C(a, b) == SortCompare(mode, byScore, a, b)
    IN  \A a, b \in K :
            LET ab == C(a, b)
            IN  /\ (ab = 0) => (C(b, a) = 0)
                /\ \A c \in K :
                      LET bc == C(b, c)
                      IN  /\ (ab = 0 /\ bc = 0) => C(a, c) = 0
                          /\ (ab < 0 /\ bc < 0) => C(a, c) < 0
                          /\ (ab > 0 /\ bc > 0) => C(a, c) > 0

RECURSIVE MapKeys(_, _, _, _)
MapKeys(arr, mode, qq, nw) ==
    IF arr = <<>> THEN <<>>
    ELSE <<sortKey(Head(arr), mode, qq, nw)>> \o MapKeys(Tail(arr), mode, qq, nw)

\* the stable order of the indices 1..n under SortCompare on the keys
RECURSIVE StableOrder(_, _, _, _)
StableOrder(keys, n, mode, byScore) ==
    IF n = 0 THEN <<>>
    ELSE LET prev == StableOrder(keys, n - 1, mode, byScore)
             k == Cardinality({ i \in 1..Len(prev) :
                    SortCompare(mode, byScore, keys[prev[i]], keys[n]) <= 0 })
         IN  SubSeq(prev, 1, k) \o <<n>> \o SubSeq(prev, k + 1, Len(prev))

Orders(n) ==
    { f \in [1..n -> 1..n] : \A i, j \in 1..n : f[i] = f[j] => i = j }

\* The results [...filtered].sort(comparator) can have.  With a consistent
\* comparator the sort is stable and the order unique; otherwise the order
\* is implementation-defined, and every permutation is a possible result.
sortOutcomes(arr, mode, qq, nw) ==
    LET byScore == ByScore(mode, qq)
        keys == MapKeys(arr, mode, qq, nw)
        ords == IF Consistent(Range(keys), mode, byScore)
                THEN { StableOrder(keys, Len(keys), mode, byScore) }
                ELSE Orders(Len(arr))
    IN  { [i \in 1..Len(arr) |-> arr[o[i]]] : o \in ords }

total     == Len(sorted)
pageCount == Max(1, CeilDiv(total, pageSize))
safePage  == clamp(page, 1, pageCount)

\* Array.prototype.slice(from, to) with 0 <= from
slice(arr, from, to) == SubSeq(arr, from + 1, Min(to, Len(arr)))

pageItems == slice(sorted, (safePage - 1) * pageSize, safePage * pageSize)

typeOf(p)  ==
    IF Get(p, "content_type") \in {undefined, ""} THEN "content" ELSE p.content_type
yearOf(p)  == computeYear(Get(p, "release_date"))
stageOf(p) == Get(p, "funnel_stage")

\* Facets from the current filtered universe
typ == [i \in 1..Len(filtered) |-> typeOf(filtered[i])]
yrs == [i \in 1..Len(filtered) |-> yearOf(filtered[i])]
ind == FlatMap(filtered, "industries")
per == FlatMap(filtered, "personas")
top == FlatMap(filtered, "topics")
tag == FlatMap(filtered, "tags")
stg == [i \in 1..Len(filtered) |-> stageOf(filtered[i])]

facets ==
    [type       |-> tally(typ),
     year       |-> tally(yrs),
     industries |-> tally(ind),
     personas   |-> tally(per),
     topics     |-> tally(top),
     tags       |-> tally(tag),
     stage      |-> tally(stg)]

\* Toggle helper: the array the setter receives
toggle(arr, v) ==
    IF Includes(arr, v) THEN SelectSeq(arr, LAMBDA x : x # v) ELSE Append(arr, v)

-----------------------------------------------------------------------------
(* Inputs of the model *)

MaxDims     == 1        \* facet dimensions with a selection at once
MaxPage     == 5        \* largest page a caller of the pager requests
MaxPick     == 2        \* values per dimension in a selection given to the filter

\* JSON values: tagged records
JArray(a)  == [type |-> "array", elems |-> a]
JObject(o) == [type |-> "object", props |-> o]
JString(s) == [type |-> "string", str |-> s]
JNumber(n) == [type |-> "number", num |-> n]
JNull      == [type |-> "null"]

\* a catalog of seven well-formed items: two pages of six
REMOTE ==
    << [id |-> 11, title |-> "Cloud Cost Basics", summary |-> "Trim the bill.",
        industries |-> <<"Tech">>, tags |-> <<"FinOps">>,
        funnel_stage |-> "Awareness", release_date |-> "2024-03-10",
        read_time_min |-> 5, content_type |-> "whitepaper",
        file_url |-> "https://example.com/11.pdf"],
       [id |-> 12, title |-> "Zero Trust Demo", summary |-> "Walkthrough.",
        industries |-> <<"Tech", "Finance">>, topics |-> <<"Zero Trust">>,
        funnel_stage |-> "Decision", release_date |-> "2025-01-20",
        duration_sec |-> 300, content_type |-> "video",
        file_url |-> "https://example.com/12.mp4"],
       [id |-> 13, title |-> "Data Mesh Notes", summary |-> "Zero trust aside.",
        industries |-> <<"Finance">>, personas |-> <<"CISO">>,
        funnel_stage |-> "Awareness", release_date |-> "2025-01-20",
        read_time_min |-> 5, content_type |-> "slide",
        file_url |-> "https://example.com/13.pdf"],
       [id |-> 14, title |-> "Ledger Audit", summary |-> "Controls.",
        industries |-> <<"Finance">>, tags |-> <<"Security">>,
        funnel_stage |-> "Decision", release_date |-> "2024-12-31",
        read_time_min |-> 9, content_type |-> "whitepaper",
        file_url |-> "https://example.com/14.pdf"],
       [id |-> 15, title |-> "Roadmap", summary |-> "Next year.",
        industries |-> <<"Tech">>, funnel_stage |-> "Retention",
        release_date |-> "2025-06-01", read_time_min |-> 2,
        content_type |-> "infographic",
        file_url |-> "https://example.com/15.pdf"],
       [id |-> 16, title |-> "Identity 101", summary |-> "Basics.",
        industries |-> <<"Tech">>, topics |-> <<"Zero Trust">>,
        funnel_stage |-> "Awareness", release_date |-> "2023-05-05",
        content_type |-> "video", duration_sec |-> 60,
        file_url |-> "https://example.com/16.mp4"],
       [id |-> 17, title |-> "Q&A", summary |-> "",
        industries |-> <<"Tech">>, funnel_stage |-> "Consideration",
        release_date |-> "2025-06-01", read_time_min |-> 2,
        content_type |-> "whitepaper",
        file_url |-> "https://example.com/17.pdf"] >>

\* a catalog with an unparseable date and with absent optional properties
ODD ==
    << [id |-> 21, title |-> "Untitled draft", release_date |-> "TBD",
        industries |-> <<"Tech">>, funnel_stage |-> "Awareness",
        content_type |-> "slide", file_url |-> "https://example.com/21.pdf"],
       [id |-> 22, title |-> "Bare item", release_date |-> "2024-06-30",
        file_url |-> "https://example.com/22.pdf"],
       [id |-> 23, title |-> "Tech talk", summary |-> "Recorded.",
        industries |-> <<"Tech">>, funnel_stage |-> "Awareness",
        release_date |-> "2025-02-01", content_type |-> "video",
        file_url |-> "https://example.com/23.mp4"] >>

\* the bodies r.json() can resolve to
Bodies ==
    { JArray(REMOTE),
      JObject([items |-> JArray(ODD)]),
      JNull,
      JNumber(5),
      JObject(<<>>),
      JObject([items |-> JNull]),
      JObject([items |-> JString("oops")]) }

\* the HTTP statuses the server answers with
Statuses == {200, 404}

\* the texts typed into the search box
Terms == {"", " ", "zero trust"}

\* the labels the user clicks, of those offered as pills or chips
Clicks ==
    [type       |-> {"whitepaper", "video", "content"},
     industries |-> {"Tech", "Finance"},
     personas   |-> {"CISO"},
     topics     |-> {"Zero Trust"},
     tags       |-> {"Security"},
     stage      |-> {"Awareness", "undefined"},
     year       |-> {"2025", "NaN"}]

\* the readings of the clock
Clock == { getTime("2025-11-19") }

-----------------------------------------------------------------------------
(* State after the first render and its effects: run() has called          *)
(* setLoading(true), setError("") and is awaiting fetch; the reset effect  *)
(* has called setPage(1).                                                  *)

Init ==
    /\ items = <<>> /\ loading = TRUE /\ error = ""
    /\ q = ""
    /\ ctype = <<>> /\ industries = <<>> /\ personas = <<>> /\ topics = <<>>
    /\ tags = <<>> /\ stage = <<>> /\ year = <<>>
    /\ sort = "relevance" /\ page = 1 /\ pageSize = 12
    /\ cancelled = FALSE
    /\ pc = "fetch" /\ r = <<>> /\ json = <<>> /\ e = ""
    /\ crashed = FALSE
    /\ filtered = <<>> /\ sorted = <<>>
    /\ now \in Clock
    /\ prevPage = 1

-----------------------------------------------------------------------------
(* Render: the memos whose dependencies changed are recomputed *)

Refilter == filtered' = computeFiltered(items', q', selections')
Resort   == sorted' \in sortOutcomes(filtered', sort', q', now')

-----------------------------------------------------------------------------
(* Fetch data once: run() *)

\* the catch branch as it would be without setItems(SAMPLE.items)
Catch_NoFallback(err) ==
    /\ e' = err
    /\ IF ~cancelled
       THEN /\ error' = "Using fallback sample data."
            /\ loading' = FALSE
            /\ UNCHANGED items
       ELSE UNCHANGED <<items, error, loading>>
    /\ pc' = "done"
    /\ UNCHANGED <<crashed, cancelled>>

\* the catch and finally branches as they would be without if (!cancelled)
Catch_Unguarded(err) ==
    /\ e' = err
    /\ items' = SAMPLE.items
    /\ error' = "Using fallback sample data."
    /\ loading' = FALSE
    /\ pc' = "done"
    /\ UNCHANGED <<crashed, cancelled>>

\* catch (e) { ... } finally { ... }
Catch(err) ==
    /\ e' = err
    /\ IF ~cancelled
       THEN /\ items' = SAMPLE.items
            /\ error' = "Using fallback sample data."
            /\ loading' = FALSE
       ELSE UNCHANGED <<items, error, loading>>
    /\ pc' = "done"
    /\ UNCHANGED <<crashed, cancelled>>

\* await fetch(DATA_URL) rejects
FetchRejects ==
    /\ pc = "fetch"
    /\ DATA_URL # ""
    /\ Catch("TypeError: Failed to fetch")
    /\ UNCHANGED <<r, json, q, facetVars, sort, page, pageSize, now>>
    /\ prevPage' = page
    /\ Refilter /\ Resort

\* await fetch(DATA_URL) resolves with a response of the given status
FetchResolves(status) ==
    /\ pc = "fetch"
    /\ DATA_URL # ""
    /\ r' = <<[status |-> status, ok |-> status \in 200..299]>>
    /\ IF ~r'[1].ok
       THEN Catch("Error: HTTP " \o ToString(status))
       ELSE /\ pc' = "json"
            /\ UNCHANGED <<items, error, loading, e, crashed, cancelled>>
    /\ UNCHANGED <<json, q, facetVars, sort, page, pageSize, now>>
    /\ prevPage' = page
    /\ Refilter /\ Resort

\* await r.json() rejects: the body is not JSON
JsonRejects ==
    /\ pc = "json"
    /\ Catch("SyntaxError: Unexpected token")
    /\ UNCHANGED <<r, json, q, facetVars, sort, page, pageSize, now>>
    /\ prevPage' = page
    /\ Refilter /\ Resort

\* whether a JSON value is truthy
Truthy(v) ==
    CASE v.type = "null"   -> FALSE
      [] v.type = "number" -> v.num # 0
      [] v.type = "string" -> v.str # ""
      [] OTHER             -> TRUE

\* Array.isArray(json) ? json : json.items || []   (json is not null)
arrOf(body) ==
    IF body.type = "array" THEN body
    ELSE IF body.type = "object" /\ "items" \in DOMAIN body.props
            /\ Truthy(body.props.items)
         THEN body.props.items
         ELSE JArray(<<>>)

\* await r.json() resolves with the parsed body
JsonResolves(body) ==
    /\ pc = "json"
    /\ json' = <<body>>
    /\ IF body.type = "null"
       THEN \* json.items throws a TypeError
            Catch("TypeError: Cannot read properties of null")
       ELSE /\ pc' = "done"
            /\ UNCHANGED <<e, error>>
            /\ IF cancelled
               THEN UNCHANGED <<items, loading, crashed, cancelled>>
               ELSE IF arrOf(body).type = "array"
               THEN /\ items' = arrOf(body).elems
                    /\ loading' = FALSE
                    /\ UNCHANGED <<crashed, cancelled>>
               ELSE \* items.filter is not a function: the render throws,
                    \* React removes the tree and runs the effect cleanup
                    /\ loading' = FALSE
                    /\ crashed' = TRUE
                    /\ cancelled' = TRUE
                    /\ UNCHANGED items
    /\ UNCHANGED <<r, q, facetVars, sort, page, pageSize, now>>
    /\ prevPage' = page
    /\ Refilter /\ Resort

\* the effect cleanup: the component unmounts
Unmount ==
    /\ ~cancelled
    /\ cancelled' = TRUE
    /\ UNCHANGED <<loadVars, q, facetVars, sort, page, pageSize, filtered,
                   sorted, now>>
    /\ prevPage' = page

-----------------------------------------------------------------------------
(* The controls.  Every change of q, of a facet array or of pageSize is    *)
(* followed by the reset effect, setPage(1), before the next event.        *)

\* the number of facet dimensions that hold a selection
ActiveDims ==
    Cardinality({ k \in DOMAIN selections : Len(selections[k]) # 0 })

\* a pill of the facet (a key of tally(arr), the facet's map) or a chip (a
\* selected value)
Clickable(arr, selected, v) ==
    /\ (\E i \in 1..Len(arr) : Key(arr[i]) = v) \/ Includes(selected, v)
    /\ Len(selected) # 0 \/ ActiveDims < MaxDims

\* the reset effect as it would be if it left the page alone
ResetPage_Keep ==
    /\ page' = page
    /\ prevPage' = page

\* the reset effect
ResetPage ==
    /\ page' = 1
    /\ prevPage' = page

\* onChange of the search input
SetQ(v) ==
    /\ ~cancelled
    /\ v # q
    /\ q' = v
    /\ ResetPage
    /\ UNCHANGED <<loadVars, cancelled, facetVars, sort, pageSize, now>>
    /\ Refilter /\ Resort

\* onChange of the Sort select
SetSort(v) ==
    /\ ~cancelled
    /\ v # sort
    /\ sort' = v
    /\ prevPage' = page
    /\ UNCHANGED <<loadVars, cancelled, q, facetVars, page, pageSize, now,
                   filtered>>
    /\ Resort

\* onChange of the Page size select
SetPageSize(n) ==
    /\ ~cancelled
    /\ n # pageSize
    /\ pageSize' = n
    /\ ResetPage
    /\ UNCHANGED <<loadVars, cancelled, q, facetVars, sort, now, filtered,
                   sorted>>

ToggleType(v) ==
    /\ ~cancelled
    /\ Clickable(typ, ctype, v)
    /\ ctype' = toggle(ctype, v)
    /\ ResetPage
    /\ UNCHANGED <<loadVars, cancelled, q, industries, personas, topics, tags,
                   stage, year, sort, pageSize, now>>
    /\ Refilter /\ Resort

ToggleIndustries(v) ==
    /\ ~cancelled
    /\ Clickable(ind, industries, v)
    /\ industries' = toggle(industries, v)
    /\ ResetPage
    /\ UNCHANGED <<loadVars, cancelled, q, ctype, personas, topics, tags,
                   stage, year, sort, pageSize, now>>
    /\ Refilter /\ Resort

TogglePersonas(v) ==
    /\ ~cancelled
    /\ Clickable(per, personas, v)
    /\ personas' = toggle(personas, v)
    /\ ResetPage
    /\ UNCHANGED <<loadVars, cancelled, q, ctype, industries, topics, tags,
                   stage, year, sort, pageSize, now>>
    /\ Refilter /\ Resort

ToggleTopics(v) ==
    /\ ~cancelled
    /\ Clickable(top, topics, v)
    /\ topics' = toggle(topics, v)
    /\ ResetPage
    /\ UNCHANGED <<loadVars, cancelled, q, ctype, industries, personas, tags,
                   stage, year, sort, pageSize, now>>
    /\ Refilter /\ Resort

ToggleTags(v) ==
    /\ ~cancelled
    /\ Clickable(tag, tags, v)
    /\ tags' = toggle(tags, v)
    /\ ResetPage
    /\ UNCHANGED <<loadVars, cancelled, q, ctype, industries, personas, topics,
                   stage, year, sort, pageSize, now>>
    /\ Refilter /\ Resort

ToggleYear(v) ==
    /\ ~cancelled
    /\ Clickable(yrs, year, v)
    /\ year' = toggle(year, v)
    /\ ResetPage
    /\ UNCHANGED <<loadVars, cancelled, q, ctype, industries, personas, topics,
                   tags, stage, sort, pageSize, now>>
    /\ Refilter /\ Resort

ToggleStage(v) ==
    /\ ~cancelled
    /\ Clickable(stg, stage, v)
    /\ stage' = toggle(stage, v)
    /\ ResetPage
    /\ UNCHANGED <<loadVars, cancelled, q, ctype, industries, personas, topics,
                   tags, year, sort, pageSize, now>>
    /\ Refilter /\ Resort

\* the Prev button of the pager
Prev ==
    /\ ~cancelled
    /\ pageCount > 1
    /\ ~(safePage <= 1)
    /\ page' = safePage - 1
    /\ prevPage' = page
    /\ UNCHANGED <<loadVars, cancelled, q, facetVars, sort, pageSize, now,
                   filtered, sorted>>

\* the Next button of the pager
NextPage ==
    /\ ~cancelled
    /\ pageCount > 1
    /\ ~(safePage >= pageCount)
    /\ page' = safePage + 1
    /\ prevPage' = page
    /\ UNCHANGED <<loadVars, cancelled, q, facetVars, sort, pageSize, now,
                   filtered, sorted>>

SortModes == {"relevance", "newest", "oldest", "shortest", "longest"}
PageSizes == {6, 12, 24, 48}

Next ==
    \/ FetchRejects
    \/ \E status \in Statuses : FetchResolves(status)
    \/ JsonRejects
    \/ \E body \in Bodies : JsonResolves(body)
    \/ Unmount
    \/ \E v \in Terms : SetQ(v)
    \/ \E v \in SortModes : SetSort(v)
    \/ \E n \in PageSizes : SetPageSize(n)
    \/ \E v \in Clicks.type : ToggleType(v)
    \/ \E v \in Clicks.industries : ToggleIndustries(v)
    \/ \E v \in Clicks.personas : TogglePersonas(v)
    \/ \E v \in Clicks.topics : ToggleTopics(v)
    \/ \E v \in Clicks.tags : ToggleTags(v)
    \/ \E v \in Clicks.year : ToggleYear(v)
    \/ \E v \in Clicks.stage : ToggleStage(v)
    \/ Prev
    \/ NextPage

Spec == Init /\ [][Next]_vars

-----------------------------------------------------------------------------
(* The pager as a function of the requested page and the page size: the    *)
(* same program, started with any requested page and with page sizes that  *)
(* include a one-item page.                                                *)

RequestedPages == 1..MaxPage
RequestedSizes == {1, 12}

InitPager ==
    /\ items = <<>> /\ loading = TRUE /\ error = ""
    /\ q = ""
    /\ ctype = <<>> /\ industries = <<>> /\ personas = <<>> /\ topics = <<>>
    /\ tags = <<>> /\ stage = <<>> /\ year = <<>>
    /\ sort = "relevance"
    /\ page \in RequestedPages
    /\ pageSize \in RequestedSizes
    /\ cancelled = FALSE
    /\ pc = "fetch" /\ r = <<>> /\ json = <<>> /\ e = ""
    /\ crashed = FALSE
    /\ filtered = <<>> /\ sorted = <<>>
    /\ now \in Clock
    /\ prevPage = page

SpecPager == InitPager /\ [][Next]_vars

-----------------------------------------------------------------------------
(* The filter as a function of the catalog and the query state: any        *)
(* catalog, term and selections are given, and one render computes the     *)
(* memos.                                                                  *)

\* the lists of at most n distinct elements of S
Picked(S, n) ==
    { s \in UNION { [1..k -> S] : k \in 0..n } :
        \A i, j \in 1..Len(s) : s[i] = s[j] => i = j }

Picks ==
    [type       |-> {"whitepaper", "video"},
     industries |-> {"Tech"},
     stage      |-> {"Awareness", "Decision"},
     year       |-> {"2024", "2025", "NaN"}]

InitFilter ==
    /\ items \in {SAMPLE.items, REMOTE, ODD}
    /\ loading = FALSE /\ error = ""
    /\ q \in Terms
    /\ ctype \in Picked(Picks.type, MaxPick)
    /\ industries \in Picked(Picks.industries, MaxPick)
    /\ personas = <<>> /\ topics = <<>> /\ tags = <<>>
    /\ stage \in Picked(Picks.stage, MaxPick)
    /\ year \in Picked(Picks.year, MaxPick)
    /\ sort = "relevance" /\ page = 1 /\ pageSize = 12
    /\ cancelled = FALSE
    /\ pc = "render" /\ r = <<>> /\ json = <<>> /\ e = ""
    /\ crashed = FALSE
    /\ filtered = <<>> /\ sorted = <<>>
    /\ now \in Clock
    /\ prevPage = 1

\* one render: the memos are computed from the state
Render ==
    /\ pc = "render"
    /\ pc' = "done"
    /\ UNCHANGED <<items, loading, error, r, json, e, crashed, cancelled, q,
                   facetVars, sort, page, pageSize, now, prevPage>>
    /\ Refilter /\ Resort

NextFilter == Render

SpecFilter == InitFilter /\ [][NextFilter]_vars

-----------------------------------------------------------------------------
(* Properties *)

\* the items of arr at positions from..to, as a list
Stretch(arr, from, to) == [i \in 1..(to - from + 1) |-> arr[from + i - 1]]

\* C1: pageCount is max(1, ceil(total / pageSize)) for total the size of
\* the filtered set, the page that produces the visible slice lies in
\* 1..pageCount, and the slice is that page of the sorted list; a requested
\* page 5 with page size 1 and three results shows page 3, the last item.
C1_PageClamped ==
    LET n == Len(filtered)
    IN  /\ total = n
        /\ pageCount >= 1
        /\ pageCount * pageSize >= n
        /\ (pageCount > 1) => ((pageCount - 1) * pageSize < n)
        /\ safePage \in 1..pageCount
        /\ (page \in 1..pageCount) => (safePage = page)
        /\ pageItems = Stretch(sorted, (safePage - 1) * pageSize + 1,
                               Min(safePage * pageSize, n))
        /\ (page = 5 /\ pageSize = 1 /\ n = 3)
              => (safePage = 3 /\ pageItems = <<sorted[3]>>)

C1_Witness ==
    /\ page = 5 /\ pageSize = 1 /\ Len(filtered) = 3
    /\ pageCount = 3 /\ safePage = 3
    /\ pageItems = <<sorted[Len(sorted)]>>

\* C2: a step that changes the search term, the selection of any facet
\* dimension or the page size leaves the current page at 1.
C2_FilterChangeResetsPage ==
    [][ (q' # q \/ ctype' # ctype \/ industries' # industries
         \/ personas' # personas \/ topics' # topics \/ tags' # tags
         \/ stage' # stage \/ year' # year \/ pageSize' # pageSize)
        => page' = 1 ]_vars

\* the page was beyond 1 before the last step, which was no Prev click (the
\* pager is gone): a filter change took page 2 back to 1
C2_Witness ==
    /\ ~cancelled
    /\ prevPage > 1 /\ page = 1
    /\ pageCount = 1
    /\ q # ""

\* the labels of p in a multi-valued dimension, empty when absent
Labels(p, name) == IF name \in DOMAIN p THEN Range(p[name]) ELSE {}

MultiDims == {"industries", "personas", "topics", "tags"}

OnlyIndustries ==
    /\ trim(q) = ""
    /\ \A k \in DOMAIN selections \ {"industries"} : selections[k] = <<>>

\* C3: with a non-empty selection in a multi-valued dimension, every item
\* of the filtered set carries all the selected values of that dimension;
\* on the sample catalog industries = [Tech] passes all three items and
\* industries = [Tech, Finance] passes the zero-trust item alone.
C3_MultiValuedAnd ==
    /\ \A d \in MultiDims : \A i \in 1..Len(filtered) :
          Range(selections[d]) \subseteq Labels(filtered[i], d)
    /\ (items = SAMPLE.items /\ OnlyIndustries)
          => /\ (industries = <<"Tech">>) => (filtered = SAMPLE.items)
             /\ (Range(industries) = {"Tech", "Finance"})
                   => (filtered = <<SAMPLE.items[1]>>)

C3_Witness ==
    /\ items = SAMPLE.items /\ OnlyIndustries
    /\ industries = <<"Tech", "Finance">>
    /\ Len(filtered) = 1 /\ filtered[1].slug = "zero-trust-2025"

SingleDims == {"type", "stage", "year"}

\* the single value of p in a single-valued dimension
SingleValue(p, d) ==
    CASE d = "type"  -> Get(p, "content_type")
      [] d = "stage" -> Get(p, "funnel_stage")
      [] d = "year"  -> computeYear(Get(p, "release_date"))

InSelected(p) ==
    \A d \in SingleDims :
        (selections[d] # <<>>) => (SingleValue(p, d) \in Range(selections[d]))

NoMultiSelected == \A d \in MultiDims : selections[d] = <<>>

\* C4: with a non-empty selection in a single-valued dimension an item
\* passes that dimension iff its value is one of the selected values; an
\* empty selection does not restrict, and with no facet selected and an
\* empty trimmed term the filtered set is the whole catalog.
C4_SingleValuedOr ==
    (pc = "done") =>
        /\ \A i \in 1..Len(filtered) : InSelected(filtered[i])
        /\ (trim(q) = "" /\ NoMultiSelected)
              => (filtered = SelectSeq(items, InSelected))
        /\ (trim(q) = "" /\ \A k \in DOMAIN selections : selections[k] = <<>>)
              => (filtered = items)

\* two types and two stages selected: an item with either type and either
\* stage passes
C4_Witness ==
    /\ pc = "done"
    /\ items = SAMPLE.items /\ trim(q) = "" /\ NoMultiSelected
    /\ ctype = <<"whitepaper", "video">>
    /\ stage = <<"Awareness", "Decision">>
    /\ year = <<>>
    /\ Len(filtered) = 2
    /\ filtered[1].content_type = "video"
    /\ filtered[2].content_type = "whitepaper"

\* whether new Date(p.release_date) is a valid date
Parseable(p) == IsIsoDate(Get(p, "release_date"))

\* C5: with a non-empty year selection, no item whose release_date cannot
\* be parsed is in the filtered set.
C5_UnparseableNeverMatchesYear ==
    (year # <<>>) => \A i \in 1..Len(filtered) : Parseable(filtered[i])

RECURSIVE SumOver(_, _)
SumOver(f, S) ==
    IF S = {} THEN 0
    ELSE LET k == CHOOSE x \in S : TRUE IN f[k] + SumOver(f, S \ {k})

\* the tally key of p in a single-valued dimension
SingleKey(p, d) ==
    CASE d = "type"  -> Key(typeOf(p))
      [] d = "stage" -> Key(stageOf(p))
      [] d = "year"  -> Key(yearOf(p))

\* the number of items of the filtered set whose key in dimension d is k
CountOf(d, k) ==
    Cardinality({ i \in 1..Len(filtered) : SingleKey(filtered[i], d) = k })

\* the number of occurrences of label k in a multi-valued dimension of the
\* filtered set
Occurrences(name, k) ==
    SumSeq([i \in 1..Len(filtered) |->
              Cardinality({ j \in 1..Len(ArrOr(filtered[i], name)) :
                              filtered[i][name][j] = k })])

FallbackMessage == "Using fallback sample data."

\* C7: once the fetch has failed with the component mounted, the catalog
\* is the three-item fallback catalog, the warning is set, loading is over
\* and the results are drawn from those three items; run() never starts
\* again.
C7_FailureFallsBack ==
    /\ []( (pc = "done" /\ e # "" /\ ~cancelled)
            => /\ items = SAMPLE.items /\ Len(items) = 3
               /\ error = FallbackMessage
               /\ loading = FALSE
               /\ Range(filtered) \subseteq Range(SAMPLE.items)
               /\ Range(sorted) = Range(filtered)
               /\ Range(pageItems) \subseteq Range(SAMPLE.items) )
    /\ [][ (pc = "done") => (pc' = "done" /\ e' = e /\ items' = items) ]_vars

\* the server answered 404 and the user then filtered the fallback catalog
C7_Witness ==
    /\ pc = "done" /\ ~cancelled
    /\ r # <<>> /\ ~r[1].ok
    /\ e = "Error: HTTP 404"
    /\ items = SAMPLE.items /\ error = FallbackMessage /\ ~loading
    /\ industries = <<"Finance">>
    /\ Len(filtered) = 1

\* the catalog the claim expects of a parsed body
ExpectedItems(body) ==
    IF body.type = "array" THEN body.elems
    ELSE IF body.type = "object" /\ "items" \in DOMAIN body.props
            /\ body.props.items.type = "array"
         THEN body.props.items.elems
         ELSE <<>>

\* C8: after an HTTP success with a parseable body, the catalog is the body
\* if it is an array, its `items` array if it is an object with one, and
\* the empty list for every other shape, and no fallback catalog and no
\* warning are used.
C8_BodyShapes ==
    (pc = "done" /\ json # <<>> /\ ~cancelled)
        => /\ items = ExpectedItems(json[1])
           /\ error = ""

\* C9: once the component is unmounted, no completion of the fetch updates
\* items, error or loading.
C9_NoUpdateAfterUnmount ==
    [][ cancelled
        => (items' = items /\ error' = error /\ loading' = loading) ]_vars

\* the fetch failed after the unmount and the state is as at the unmount
C9_Witness ==
    /\ cancelled /\ ~crashed
    /\ pc = "done" /\ e # ""
    /\ items = <<>> /\ error = "" /\ loading = TRUE

\* b is a rearrangement of a
IsPermutation(a, b) ==
    /\ Len(a) = Len(b)
    /\ \E f \in Orders(Len(a)) : \A i \in 1..Len(a) : b[i] = a[f[i]]

\* release_date of x >= release_date of y, as dates
DateGeq(x, y) ==
    LET tx == getTime(Get(x, "release_date"))
        ty == getTime(Get(y, "release_date"))
    IN  tx # NaN /\ ty # NaN /\ tx >= ty

ByNewest == sort = "newest" \/ (sort = "relevance" /\ trim(q) = "")

Ids(arr) == [i \in 1..Len(arr) |-> arr[i].id]

\* C10: under newest, and under relevance with an empty trimmed
\* term, the sorted list is a permutation of the filtered set whose
\* adjacent release dates never increase; the unfiltered sample catalog
\* comes out as zero-trust, dev-intent, ai-governance.
C10_NewestDescending ==
    ByNewest =>
        /\ IsPermutation(filtered, sorted)
        /\ \A i \in 1..(Len(sorted) - 1) : DateGeq(sorted[i], sorted[i + 1])
        /\ (filtered = SAMPLE.items => Ids(sorted) = <<1, 3, 2>>)

-----------------------------------------------------------------------------
(* The sorted memo over any catalog, search text, sort mode and clock      *)

\* the texts given to the search box of the ranking
RankTerms == {"zero trust", " ZERO  trust", "t", "tech"}

\* the readings of the clock of the ranking: items younger and older than
\* two years
RankClock == { getTime("2025-11-19"), getTime("2027-01-01") }

InitRank ==
    /\ items \in {SAMPLE.items, REMOTE, ODD}
    /\ loading = FALSE /\ error = ""
    /\ q \in RankTerms
    /\ ctype = <<>> /\ industries = <<>> /\ personas = <<>> /\ topics = <<>>
    /\ tags = <<>> /\ stage = <<>> /\ year = <<>>
    /\ sort \in SortModes
    /\ page = 1 /\ pageSize = 12
    /\ cancelled = FALSE
    /\ pc = "render" /\ r = <<>> /\ json = <<>> /\ e = ""
    /\ crashed = FALSE
    /\ filtered = <<>> /\ sorted = <<>>
    /\ now \in RankClock
    /\ prevPage = 1

SpecRank == InitRank /\ [][NextFilter]_vars

\* the lower-cased tokens of the trimmed search text
Tokens == split(toLowerCase(trim(q)))

\* the labels and texts of p a token can occur in
Texts(p) ==
    {StrOr(p, "title"), StrOr(p, "summary")}
        \cup Labels(p, "topics") \cup Labels(p, "tags")
        \cup Labels(p, "personas") \cup Labels(p, "industries")

\* 5 for a title hit, 2 for a summary hit, 1 for a hit anywhere
TokenScore(p, w) ==
    (IF includesI(StrOr(p, "title"), w) THEN 5 ELSE 0)
  + (IF includesI(StrOr(p, "summary"), w) THEN 2 ELSE 0)
  + (IF \E s \in Texts(p) : includesI(s, w) THEN 1 ELSE 0)

\* the total score of p, times 365: the token scores plus the recency
\* bonus max(0, 2 - ageInYears); NaN when the release date gives no age
TotalScore(p) ==
    LET t == getTime(Get(p, "release_date"))
    IN  IF t = NaN THEN NaN
        ELSE 365 * SumSeq([i \in 1..Len(Tokens) |->
                             IF Tokens[i] = "" THEN 0
                             ELSE TokenScore(p, Tokens[i])])
             + Max(0, 2 * 365 - (now - t))

\* the score of x >= the score of y
ScoreGeq(x, y) ==
    LET sx == TotalScore(x)
        sy == TotalScore(y)
    IN  sx # NaN /\ sy # NaN /\ sx >= sy

\* C11: under relevance with a non-empty trimmed search term the sorted
\* list is the filtered set in descending order of total score; for the
\* term "zero trust" on the sample catalog the zero-trust item is first.
C11_RelevanceByScore ==
    (pc = "done" /\ sort = "relevance" /\ trim(q) # "")
        => /\ IsPermutation(filtered, sorted)
           /\ \A i \in 1..(Len(sorted) - 1) : ScoreGeq(sorted[i], sorted[i + 1])
           /\ (items = SAMPLE.items /\ q = "zero trust")
                 => (sorted # <<>> /\ sorted[1].slug = "zero-trust-2025")

\* the selection of a single-valued dimension
SingleSelection(d) ==
    CASE d = "type"  -> ctype
      [] d = "stage" -> stage
      [] d = "year"  -> year

\* the labels the facet of a single-valued dimension offers as pills
Offered(d) == DOMAIN facets[d]

ToggledOn ==
    \E d \in DOMAIN selections : Len(selections'[d]) > Len(selections[d])

\* C13: toggling on a value that a facet offers as a pill and that is not
\* yet selected leaves a non-empty filtered set; a non-empty filtered set
\* becomes empty only by a change of the search term.
C13_OfferedPillNeverEmpties ==
    [][ /\ ToggledOn => filtered' # <<>>
        /\ (filtered # <<>> /\ filtered' = <<>>) => q' # q ]_vars

=============================================================================
